---- MODULE Spec2Model ----
(***************************************************************************)
(* Model of the in-memory notes service of src/src/main.rs: the note       *)
(* store (a Vec<Note> behind one tokio Mutex), the process-wide atomic id  *)
(* counter NEXT_NOTE_ID, the warp filter chain that routes a request to a  *)
(* handler, and the four handlers list_notes, create_note, update_note and *)
(* remove_note, cut into steps at their await points.                      *)
(***************************************************************************)
EXTENDS Integers, Sequences, FiniteSets, TLC

(***************************************************************************)
(* Bounds of the model.                                                    *)
(***************************************************************************)
\* number of requests that can be in flight at the same time
NReq == 2
\* number of requests received in one behaviour of Spec
MaxRequests == 3
\* number of POST /notes requests that run create_note in one behaviour
MaxCreates == 2
\* number of requests received in one behaviour of SeqSpec
MaxSeqRequests == 7

Reqs == 1..NReq

(***************************************************************************)
(* Program constants.                                                      *)
(***************************************************************************)
\* AtomicU64::new(1)
FIRST_NOTE_ID == 1
\* warp::body::content_length_limit(1024 * 16)
BODY_LIMIT == 16384
StatusOK == 200
StatusCREATED == 201
StatusNO_CONTENT == 204
StatusNOT_FOUND == 404
StatusUNPROCESSABLE_ENTITY == 422

(***************************************************************************)
(* Option<T>: None is the empty sequence, Some(x) the one-element one.     *)
(***************************************************************************)
None == <<>>
Some(x) == <<x>>
IsSome(o) == Len(o) = 1
IsNone(o) == Len(o) = 0
Unwrap(o) == o[1]

(***************************************************************************)
(* HTTP requests.  A path is a sequence of segments, a segment a sequence  *)
(* of characters; a body carries its Content-Length header (an Option) and *)
(* its text, abstracted to what serde_json sees in it: not JSON at all     *)
(* ("garbage"), JSON that is no object ("array"), or an object with an     *)
(* optional string member title and an optional string member content.     *)
(***************************************************************************)
SegNotes == <<"n", "o", "t", "e", "s">>
SegOther == <<"x">>

Titles == {"Lorem Ipsum", "T"}
Contents == {"hi"}

ObjectBodies ==
    { [length |-> Some(BODY_LIMIT), syntax |-> "object", title |-> t, content |-> c] :
        t \in {None} \cup {Some(x) : x \in Titles},
        c \in {None} \cup {Some(x) : x \in Contents} }

\* bodies the body filters reject: too long, no Content-Length, not JSON,
\* JSON of the wrong shape
OversizedBody ==
    [length |-> Some(BODY_LIMIT + 1), syntax |-> "object",
     title |-> Some("T"), content |-> Some("hi")]
NoLengthBody ==
    [length |-> None, syntax |-> "object", title |-> Some("T"), content |-> Some("hi")]
GarbageBody ==
    [length |-> Some(BODY_LIMIT), syntax |-> "garbage", title |-> None, content |-> None]
ArrayBody ==
    [length |-> Some(BODY_LIMIT), syntax |-> "array", title |-> None, content |-> None]
EmptyBody ==
    [length |-> None, syntax |-> "garbage", title |-> None, content |-> None]

Bodies == ObjectBodies \cup {OversizedBody, NoLengthBody, GarbageBody, ArrayBody}

\* path segments sent in the place of the note id
IdSegs == { <<"0">>, <<"1">>, <<"2">>, <<"3">>, <<"+", "1">>, <<"0", "2">>,
            <<"-", "1">>, <<"a">>, <<"+">> }

\* the segments whose PATCH requests carry every body
StoreIdSegs == { <<"0">>, <<"1">>, <<"2">> }
TitleBody ==
    [length |-> Some(BODY_LIMIT), syntax |-> "object", title |-> Some("T"), content |-> None]

Requests ==
    { [method |-> m, path |-> <<SegNotes>>, body |-> EmptyBody] :
        m \in {"GET", "DELETE", "PUT"} }
    \cup { [method |-> "POST", path |-> <<SegNotes>>, body |-> b] : b \in Bodies }
    \cup { [method |-> "PATCH", path |-> <<SegNotes, s>>, body |-> b] :
             s \in StoreIdSegs, b \in Bodies }
    \cup { [method |-> "PATCH", path |-> <<SegNotes, s>>, body |-> TitleBody] :
             s \in IdSegs }
    \cup { [method |-> m, path |-> <<SegNotes, s>>, body |-> EmptyBody] :
             m \in {"DELETE", "GET"}, s \in IdSegs }
    \cup { [method |-> "GET", path |-> <<SegOther>>, body |-> EmptyBody],
           [method |-> "DELETE", path |-> <<SegNotes, <<"1">>, SegOther>>,
            body |-> EmptyBody],
           [method |-> "POST", path |-> <<SegNotes, <<"1">>>>,
            body |-> TitleBody] }

\* the requests the concurrent service is driven with: every handler, each
\* shape of update, an id that is never assigned, and a rejected body
CoreRequests ==
    { [method |-> "GET", path |-> <<SegNotes>>, body |-> EmptyBody],
      [method |-> "POST", path |-> <<SegNotes>>, body |-> OversizedBody] }
    \cup { [method |-> "POST", path |-> <<SegNotes>>, body |-> b] :
             b \in { x \in ObjectBodies :
                       \/ x.title = Some("Lorem Ipsum") /\ x.content = None
                       \/ x.title = Some("T") /\ x.content = Some("hi") } }
    \cup { [method |-> "PATCH", path |-> <<SegNotes, s>>, body |-> b] :
             s \in { <<"1">>, <<"2">> },
             b \in { x \in ObjectBodies : x.title \in {None, Some("T")} } }
    \cup { [method |-> "DELETE", path |-> <<SegNotes, s>>, body |-> EmptyBody] :
             s \in { <<"0">>, <<"1">>, <<"2">> } }

NoRequest == [method |-> "", path |-> <<>>, body |-> EmptyBody]

(***************************************************************************)
(* NoteId::from_str, that is u64::from_str: an optional '+', then one or   *)
(* more decimal digits.  (A value above u64::MAX is an error too; no       *)
(* segment of the model is that long.)                                     *)
(***************************************************************************)
Digits == {"0", "1", "2", "3", "4", "5", "6", "7", "8", "9"}

DigitValue(c) ==
    CASE c = "0" -> 0 [] c = "1" -> 1 [] c = "2" -> 2 [] c = "3" -> 3 [] c = "4" -> 4
      [] c = "5" -> 5 [] c = "6" -> 6 [] c = "7" -> 7 [] c = "8" -> 8 [] c = "9" -> 9

RECURSIVE DecimalValue(_)
DecimalValue(ds) ==
    IF ds = <<>> THEN 0
    ELSE 10 * DecimalValue(SubSeq(ds, 1, Len(ds) - 1)) + DigitValue(ds[Len(ds)])

\* a parse that skips a leading '-' like a leading '+'
U64FromStrAnySign(s) ==
    LET ds == IF s # <<>> /\ s[1] \in {"+", "-"} THEN Tail(s) ELSE s
    IN  IF ds # <<>> /\ \A i \in 1..Len(ds) : ds[i] \in Digits
        THEN Some(DecimalValue(ds))
        ELSE None

U64FromStr(s) ==
    LET ds == IF s # <<>> /\ s[1] = "+" THEN Tail(s) ELSE s
    IN  IF ds # <<>> /\ \A i \in 1..Len(ds) : ds[i] \in Digits
        THEN Some(DecimalValue(ds))
        ELSE None

NoteIdFromStr(s) == U64FromStr(s)

(***************************************************************************)
(* The body filters: content_length_limit(1024 * 16), then body::json()    *)
(* into the request struct of the route.                                   *)
(***************************************************************************)
\* a body filter without the limit
ContentLengthUnlimited(body) == IsSome(body.length)

ContentLengthLimit(body) ==
    IsSome(body.length) /\ Unwrap(body.length) <= BODY_LIMIT

\* CreateNoteRequest whose content member is skipped in deserialization
DeserializeCreateNoContent(body) ==
    IF body.syntax = "object" /\ IsSome(body.title)
    THEN Some([title |-> Unwrap(body.title), content |-> ""])
    ELSE None

\* CreateNoteRequest: title is required, content has #[serde(default)]
DeserializeCreate(body) ==
    IF body.syntax = "object" /\ IsSome(body.title)
    THEN Some([title |-> Unwrap(body.title),
               content |-> IF IsSome(body.content) THEN Unwrap(body.content) ELSE ""])
    ELSE None

\* UpdateNoteRequest: both members are Option<String>
DeserializeUpdate(body) ==
    IF body.syntax = "object"
    THEN Some([title |-> body.title, content |-> body.content])
    ELSE None

(***************************************************************************)
(* The routes of main: each handler's filter chain, tried in the order of  *)
(* routes; a chain that rejects hands the request to the next one, and     *)
(* not_found_handler (warp::any()) accepts whatever is left.               *)
(***************************************************************************)
NoArgs == [id |-> 0, title |-> None, content |-> None]

PathNotes(req) == req.path = <<SegNotes>>

PathNotesId(req) ==
    /\ Len(req.path) = 2
    /\ req.path[1] = SegNotes
    /\ IsSome(NoteIdFromStr(req.path[2]))

PathId(req) == Unwrap(NoteIdFromStr(req.path[2]))

list_notes_handler(req) == PathNotes(req) /\ req.method = "GET"

create_note_handler(req) ==
    /\ PathNotes(req)
    /\ req.method = "POST"
    /\ ContentLengthLimit(req.body)
    /\ IsSome(DeserializeCreate(req.body))

update_note_handler(req) ==
    /\ PathNotesId(req)
    /\ req.method = "PATCH"
    /\ ContentLengthLimit(req.body)
    /\ IsSome(DeserializeUpdate(req.body))

remove_note_handler(req) == PathNotesId(req) /\ req.method = "DELETE"

routes(req) ==
    IF list_notes_handler(req) THEN "list_notes"
    ELSE IF create_note_handler(req) THEN "create_note"
    ELSE IF update_note_handler(req) THEN "update_note"
    ELSE IF remove_note_handler(req) THEN "remove_note"
    ELSE "not_found"

\* the arguments the matched chain extracts for its handler
Extract(req) ==
    CASE routes(req) = "create_note" ->
           [id |-> 0,
            title |-> Some(Unwrap(DeserializeCreate(req.body)).title),
            content |-> Some(Unwrap(DeserializeCreate(req.body)).content)]
      [] routes(req) = "update_note" ->
           [id |-> PathId(req),
            title |-> Unwrap(DeserializeUpdate(req.body)).title,
            content |-> Unwrap(DeserializeUpdate(req.body)).content]
      [] routes(req) = "remove_note" ->
           [id |-> PathId(req), title |-> None, content |-> None]
      [] OTHER -> NoArgs

(***************************************************************************)
(* Notes, responses and the pure parts of the handlers.                    *)
(***************************************************************************)
NoNote == [id |-> 0, title |-> "", content |-> ""]

\* NoteResponse { id, title, content } built from a Note
\* a response note that leaves the content out
NoteResponseTitleOnly(note) == [id |-> note.id, title |-> note.title, content |-> ""]

NoteResponseOf(note) == [id |-> note.id, title |-> note.title, content |-> note.content]

NoResponse == [status |-> 0, json |-> "none", notes |-> <<>>]
StatusReply(code) == [status |-> code, json |-> "none", notes |-> <<>>]

\* fetch_add that steps the counter by two
FetchAddTwo(n) == n + 2

\* fetch_add that leaves the counter as it was
FetchAddStuck(n) == n

\* fetch_sub in the place of fetch_add
FetchSub(n) == n - 1

\* NEXT_NOTE_ID.fetch_add(1, Relaxed): the value the counter holds afterwards
FetchAdd(n) == n + 1

\* a lookup that settles for the last note when no note has the id
PositionOrLast(s, id) ==
    IF \E i \in 1..Len(s) : s[i].id = id
    THEN CHOOSE i \in 1..Len(s) : s[i].id = id /\ \A j \in 1..(i - 1) : s[j].id # id
    ELSE Len(s)

\* db.iter().position(|note| note.id == id): 0 stands for None
Position(s, id) ==
    IF \E i \in 1..Len(s) : s[i].id = id
    THEN CHOOSE i \in 1..Len(s) : s[i].id = id /\ \A j \in 1..(i - 1) : s[j].id # id
    ELSE 0

\* retain with the test the wrong way round
RetainMatching(s, id) == SelectSeq(s, LAMBDA note : note.id = id)

\* a removal that numbers the notes it keeps afresh, from 1
RetainRenumber(s, id) ==
    LET kept == SelectSeq(s, LAMBDA note : note.id # id)
    IN  [i \in 1..Len(kept) |-> [kept[i] EXCEPT !.id = i]]

\* db.retain(|note| note.id != id)
Retain(s, id) == SelectSeq(s, LAMBDA note : note.id # id)

\* an update_note without the check of its request
BothAbsentUnchecked(a) == FALSE

\* req.title.is_none() && req.content.is_none()
BothAbsent(a) == IsNone(a.title) /\ IsNone(a.content)

\* a title write that stores a fresh note, dropping the content
WriteTitleClearsContent(note, a) ==
    IF IsSome(a.title)
    THEN [id |-> note.id, title |-> Unwrap(a.title), content |-> ""]
    ELSE note

\* if let Some(new_title) = req.title { note.title = new_title; }
WriteTitle(note, a) ==
    IF IsSome(a.title) THEN [note EXCEPT !.title = Unwrap(a.title)] ELSE note

\* an update that forgets the content
WriteContentSkipped(note, a) == note

\* if let Some(new_content) = req.content { note.content = new_content; }
WriteContent(note, a) ==
    IF IsSome(a.content) THEN [note EXCEPT !.content = Unwrap(a.content)] ELSE note

(***************************************************************************)
(* The requests of the concrete scenario of the specification, in order.   *)
(***************************************************************************)
ScenarioReq ==
    << [method |-> "POST", path |-> <<SegNotes>>,
        body |-> [length |-> Some(BODY_LIMIT), syntax |-> "object",
                  title |-> Some("Lorem Ipsum"), content |-> None]],
       [method |-> "GET", path |-> <<SegNotes>>, body |-> EmptyBody],
       [method |-> "PATCH", path |-> <<SegNotes, <<"1">>>>,
        body |-> [length |-> Some(BODY_LIMIT), syntax |-> "object",
                  title |-> None, content |-> Some("hi")]],
       [method |-> "GET", path |-> <<SegNotes>>, body |-> EmptyBody],
       [method |-> "DELETE", path |-> <<SegNotes, <<"1">>>>, body |-> EmptyBody],
       [method |-> "GET", path |-> <<SegNotes>>, body |-> EmptyBody],
       [method |-> "DELETE", path |-> <<SegNotes, <<"1">>>>, body |-> EmptyBody] >>

ScenarioLen == Len(ScenarioReq)

(***************************************************************************)
(* State.                                                                  *)
(***************************************************************************)
VARIABLES
    db,             \* the Vec<Note> inside the Mutex
    NEXT_NOTE_ID,   \* the static AtomicU64
    lock,           \* the request holding the Mutex, 0 when it is free
    waiters,        \* the requests queued on the Mutex, oldest first
    pc,             \* where each request is in its handler
    raw,            \* the HTTP request each request slot is serving
    handler,        \* the handler the routes dispatched it to
    args,           \* the id and the request struct extracted for the handler
    new_note,       \* create_note: new_note
    note_idx,       \* update_note: note_idx of the note being written
    sent,           \* the response the latest step sent, with the request it answers
    \* history, read by the properties only
    started,        \* number of requests received so far
    assigned,       \* the ids fetch_add handed out, in the order it did
    acquired,       \* how often each request has been granted the lock
    deleted,        \* the ids some remove_note answered 204 for
    dbAtLock,       \* db as it was when the holder of the Mutex was granted it
    returned,       \* the ids of the 201 responses sent so far
    seenAtStart,    \* create_note: the value of returned when the request came in
    lastCreated,    \* the create whose push was the last change of db, if any
    scn             \* how many requests of the scenario have been received, -1 once
                    \* the requests received are no prefix of it in sequence

vars == << db, NEXT_NOTE_ID, lock, waiters, pc, raw, handler, args, new_note,
           note_idx, sent, started, assigned, acquired, deleted, dbAtLock, returned,
           seenAtStart, lastCreated, scn >>

store == << db, NEXT_NOTE_ID >>
createHist == << assigned, returned >>
scenario == << started, scn >>

InFlight(q) == pc[q] # "idle"

NoSent ==
    [raw |-> NoRequest, handler |-> "none", args |-> NoArgs, note |-> NoNote,
     resp |-> NoResponse, acquired |-> 0, seen |-> {}, saw |-> None,
     before |-> <<>>, deleted |-> {}]

Init ==
    /\ db = <<>>
    /\ NEXT_NOTE_ID = FIRST_NOTE_ID
    /\ lock = 0
    /\ waiters = <<>>
    /\ pc = [r \in Reqs |-> "idle"]
    /\ raw = [r \in Reqs |-> NoRequest]
    /\ handler = [r \in Reqs |-> "none"]
    /\ args = [r \in Reqs |-> NoArgs]
    /\ new_note = [r \in Reqs |-> NoNote]
    /\ note_idx = [r \in Reqs |-> 0]
    /\ sent = NoSent
    /\ started = 0
    /\ assigned = <<>>
    /\ acquired = [r \in Reqs |-> 0]
    /\ deleted = {}
    /\ dbAtLock = <<>>
    /\ returned = {}
    /\ seenAtStart = [r \in Reqs |-> {}]
    /\ lastCreated = None
    /\ scn = 0

(***************************************************************************)
(* A request arrives and goes through routes.  The filters read the        *)
(* request only, so this is one step; a request no handler chain accepts   *)
(* is answered by not_found_handler at once.  The request slots stand for  *)
(* the tasks warp spawns; which free slot serves a request makes no        *)
(* difference, so the lowest one does.                                     *)
(***************************************************************************)
EntryPc(h) ==
    CASE h = "list_notes" -> "lock"
      [] h = "create_note" -> "fetch_add"
      [] h = "update_note" -> "validate"
      [] h = "remove_note" -> "lock"
      [] OTHER -> "idle"

FreeSlot(r) == pc[r] = "idle" /\ \A q \in Reqs : q < r => pc[q] # "idle"

Receive(r, req, cap) ==
    /\ FreeSlot(r)
    /\ started < cap
    /\ routes(req) = "create_note" => Len(assigned) < MaxCreates
    /\ started' = started + 1
    /\ scn' = IF /\ scn >= 0
                 /\ scn < ScenarioLen
                 /\ \A q \in Reqs : ~InFlight(q)
                 /\ req = ScenarioReq[scn + 1]
              THEN scn + 1 ELSE -1
    /\ IF routes(req) = "not_found"
       THEN /\ sent' = [NoSent EXCEPT !.raw = req, !.handler = "not_found",
                                      !.resp = StatusReply(StatusNOT_FOUND),
                                      !.before = db, !.deleted = deleted]
            /\ UNCHANGED << pc, raw, handler, args, seenAtStart >>
       ELSE /\ pc' = [pc EXCEPT ![r] = EntryPc(routes(req))]
            /\ raw' = [raw EXCEPT ![r] = req]
            /\ handler' = [handler EXCEPT ![r] = routes(req)]
            /\ args' = [args EXCEPT ![r] = Extract(req)]
            /\ seenAtStart' = [seenAtStart EXCEPT ![r] =
                                 IF routes(req) = "create_note" THEN returned ELSE {}]
            /\ sent' = NoSent
    /\ UNCHANGED << store, lock, waiters, new_note, note_idx, acquired, createHist,
                    deleted, dbAtLock, lastCreated >>

(***************************************************************************)
(* db.lock().await: the Mutex is granted at once when it is free; else the *)
(* request queues, and the unlock of the holder hands the Mutex to the     *)
(* oldest queued request (tokio's Mutex is fair).                          *)
(***************************************************************************)
\* a lock that is granted whether or not it is held
LockAcquireBarging(r) ==
    /\ pc[r] = "lock"
    /\ lock' = r
    /\ pc' = [pc EXCEPT ![r] = "locked"]
    /\ acquired' = [acquired EXCEPT ![r] = @ + 1]
    /\ dbAtLock' = db
    /\ sent' = NoSent
    /\ UNCHANGED << store, waiters, raw, handler, args, new_note, note_idx,
                    createHist, seenAtStart, deleted, lastCreated, scenario >>

LockAcquire(r) ==
    /\ pc[r] = "lock"
    /\ lock = 0
    /\ lock' = r
    /\ pc' = [pc EXCEPT ![r] = "locked"]
    /\ acquired' = [acquired EXCEPT ![r] = @ + 1]
    /\ dbAtLock' = db
    /\ sent' = NoSent
    /\ UNCHANGED << store, waiters, raw, handler, args, new_note, note_idx,
                    createHist, seenAtStart, deleted, lastCreated, scenario >>

LockWait(r) ==
    /\ pc[r] = "lock"
    /\ lock # 0
    /\ waiters' = Append(waiters, r)
    /\ pc' = [pc EXCEPT ![r] = "waiting"]
    /\ sent' = NoSent
    /\ UNCHANGED << store, lock, raw, handler, args, new_note, note_idx,
                    createHist, seenAtStart, acquired, deleted, dbAtLock,
                    lastCreated, scenario >>

\* an unlock that wakes no waiter
NextHolderNone == IF waiters = <<>> THEN 0 ELSE 0

\* the request the Mutex goes to when its holder drops the guard
NextHolder == IF waiters = <<>> THEN 0 ELSE Head(waiters)

\* the handler of r returns response: the reply is sent and the task ends
Reply(r, response, saw) ==
    /\ sent' = [raw |-> raw[r], handler |-> handler[r], args |-> args[r],
                note |-> new_note[r], resp |-> response, acquired |-> acquired[r],
                seen |-> seenAtStart[r], saw |-> saw,
                before |-> IF lock = r THEN dbAtLock ELSE db, deleted |-> deleted]
    /\ raw' = [raw EXCEPT ![r] = NoRequest]
    /\ handler' = [handler EXCEPT ![r] = "none"]
    /\ args' = [args EXCEPT ![r] = NoArgs]
    /\ new_note' = [new_note EXCEPT ![r] = NoNote]
    /\ note_idx' = [note_idx EXCEPT ![r] = 0]
    /\ seenAtStart' = [seenAtStart EXCEPT ![r] = {}]

\* r returns without having locked the Mutex
Return(r, response) ==
    /\ Reply(r, response, None)
    /\ pc' = [pc EXCEPT ![r] = "idle"]
    /\ acquired' = [acquired EXCEPT ![r] = 0]
    /\ UNCHANGED << lock, waiters, dbAtLock >>

\* r returns and its MutexGuard is dropped
ReturnUnlock(r, response, saw) ==
    /\ Reply(r, response, saw)
    /\ lock' = NextHolder
    /\ waiters' = IF waiters = <<>> THEN <<>> ELSE Tail(waiters)
    /\ pc' = [q \in Reqs |-> IF q = r THEN "idle"
                             ELSE IF q = NextHolder THEN "locked" ELSE pc[q]]
    /\ acquired' = [q \in Reqs |-> IF q = r THEN 0
                                   ELSE IF q = NextHolder THEN acquired[q] + 1
                                   ELSE acquired[q]]
    /\ dbAtLock' = IF NextHolder = 0 THEN <<>> ELSE db'

(***************************************************************************)
(* list_notes                                                              *)
(***************************************************************************)
\* a list that reads the notes without the Mutex
ListBodyUnlocked(r) ==
    /\ pc[r] = "lock"
    /\ handler[r] = "list_notes"
    /\ Return(r, [status |-> StatusOK, json |-> "array",
                  notes |-> [i \in 1..Len(db) |-> NoteResponseOf(db[i])]])
    /\ UNCHANGED << store, createHist, deleted, lastCreated, scenario >>

\* lines 63-72, and the guard dropped on return
ListBody(r) ==
    /\ pc[r] = "locked"
    /\ handler[r] = "list_notes"
    /\ lock = r
    /\ UNCHANGED db
    /\ ReturnUnlock(r, [status |-> StatusOK, json |-> "array",
                        notes |-> [i \in 1..Len(db) |-> NoteResponseOf(db[i])]],
                    lastCreated)
    /\ UNCHANGED << NEXT_NOTE_ID, createHist, deleted, lastCreated, scenario >>

(***************************************************************************)
(* create_note                                                             *)
(***************************************************************************)
\* lines 76-80: new_note is built, its id taken from the counter
CreateFetchAdd(r) ==
    /\ pc[r] = "fetch_add"
    /\ new_note' = [new_note EXCEPT ![r] =
                      [id |-> NEXT_NOTE_ID,
                       title |-> Unwrap(args[r].title),
                       content |-> Unwrap(args[r].content)]]
    /\ NEXT_NOTE_ID' = FetchAdd(NEXT_NOTE_ID)
    /\ assigned' = Append(assigned, NEXT_NOTE_ID)
    /\ pc' = [pc EXCEPT ![r] = "lock"]
    /\ sent' = NoSent
    /\ UNCHANGED << db, lock, waiters, raw, handler, args, note_idx, started,
                    acquired, deleted, dbAtLock, returned, seenAtStart, lastCreated,
                    scn >>

\* lines 83-90, and the guard dropped on return
CreatePush(r) ==
    /\ pc[r] = "locked"
    /\ handler[r] = "create_note"
    /\ lock = r
    /\ db' = Append(db, new_note[r])
    /\ returned' = returned \cup {new_note[r].id}
    /\ lastCreated' = Some([id |-> new_note[r].id,
                            title |-> raw[r].body.title,
                            content |-> raw[r].body.content])
    /\ ReturnUnlock(r, [status |-> StatusCREATED, json |-> "object",
                        notes |-> << NoteResponseOf(new_note[r]) >>], None)
    /\ UNCHANGED << NEXT_NOTE_ID, assigned, deleted, scenario >>

(***************************************************************************)
(* update_note                                                             *)
(***************************************************************************)
\* lines 94-96
UpdateValidate(r) ==
    /\ pc[r] = "validate"
    /\ IF BothAbsent(args[r])
       THEN Return(r, StatusReply(StatusUNPROCESSABLE_ENTITY))
       ELSE /\ pc' = [pc EXCEPT ![r] = "lock"]
            /\ sent' = NoSent
            /\ UNCHANGED << lock, waiters, raw, handler, args, new_note, note_idx,
                            seenAtStart, acquired, dbAtLock >>
    /\ UNCHANGED << store, createHist, deleted, lastCreated, scenario >>

\* lines 99-107: the note is looked up; 404 without it, else its title is written
UpdateFind(r) ==
    /\ pc[r] = "locked"
    /\ handler[r] = "update_note"
    /\ lock = r
    /\ LET idx == Position(db, args[r].id)
       IN  IF idx = 0
           THEN /\ UNCHANGED << db, lastCreated >>
                /\ ReturnUnlock(r, StatusReply(StatusNOT_FOUND), None)
           ELSE /\ db' = [db EXCEPT ![idx] = WriteTitle(db[idx], args[r])]
                /\ note_idx' = [note_idx EXCEPT ![r] = idx]
                /\ pc' = [pc EXCEPT ![r] = "write_content"]
                /\ lastCreated' = None
                /\ sent' = NoSent
                /\ UNCHANGED << lock, waiters, raw, handler, args, new_note,
                                seenAtStart, acquired, dbAtLock >>
    /\ UNCHANGED << NEXT_NOTE_ID, createHist, deleted, scenario >>

\* lines 108-112, and the guard dropped on return
UpdateContent(r) ==
    /\ pc[r] = "write_content"
    /\ lock = r
    /\ db' = [db EXCEPT ![note_idx[r]] = WriteContent(db[note_idx[r]], args[r])]
    /\ lastCreated' = None
    /\ ReturnUnlock(r, StatusReply(StatusNO_CONTENT), None)
    /\ UNCHANGED << NEXT_NOTE_ID, createHist, deleted, scenario >>

(***************************************************************************)
(* remove_note                                                             *)
(***************************************************************************)
\* lines 117-124, and the guard dropped on return
RemoveBody(r) ==
    /\ pc[r] = "locked"
    /\ handler[r] = "remove_note"
    /\ lock = r
    /\ LET old_len == Len(db)
           kept == Retain(db, args[r].id)
       IN  /\ db' = kept
           /\ IF old_len # Len(kept)
              THEN /\ ReturnUnlock(r, StatusReply(StatusNO_CONTENT), None)
                   /\ deleted' = deleted \cup {args[r].id}
                   /\ lastCreated' = None
              ELSE /\ ReturnUnlock(r, StatusReply(StatusNOT_FOUND), None)
                   /\ UNCHANGED << deleted, lastCreated >>
    /\ UNCHANGED << NEXT_NOTE_ID, createHist, scenario >>

(***************************************************************************)
(* The service under concurrent requests.                                  *)
(***************************************************************************)
Next ==
    \/ \E r \in Reqs, req \in CoreRequests : Receive(r, req, MaxRequests)
    \/ \E r \in Reqs : LockAcquire(r)
    \/ \E r \in Reqs : LockWait(r)
    \/ \E r \in Reqs : ListBody(r)
    \/ \E r \in Reqs : CreateFetchAdd(r)
    \/ \E r \in Reqs : CreatePush(r)
    \/ \E r \in Reqs : UpdateValidate(r)
    \/ \E r \in Reqs : UpdateFind(r)
    \/ \E r \in Reqs : UpdateContent(r)
    \/ \E r \in Reqs : RemoveBody(r)

Spec == Init /\ [][Next]_vars

(***************************************************************************)
(* The service under one client that sends a request when it has the       *)
(* response to the one before: no request ever finds the Mutex taken.      *)
(***************************************************************************)
SeqNext ==
    \/ \E req \in Requests : Receive(1, req, MaxSeqRequests)
    \/ LockAcquire(1)
    \/ ListBody(1)
    \/ CreateFetchAdd(1)
    \/ CreatePush(1)
    \/ UpdateValidate(1)
    \/ UpdateFind(1)
    \/ UpdateContent(1)
    \/ RemoveBody(1)

SeqSpec == Init /\ [][SeqNext]_vars

(***************************************************************************)
(* The service under a fair runtime.  tokio polls every task that is ready *)
(* to run, so a step of a request that stays enabled is taken (weak        *)
(* fairness per task); a task queued on the Mutex is not ready, and is     *)
(* made so by the unlock of the holder, which hands the Mutex to the       *)
(* oldest waiter (ReturnUnlock).  The requests are one of each handler,    *)
(* with an update of both fields and an update of none.                    *)
(***************************************************************************)
LiveRequests ==
    { req \in CoreRequests :
        \/ req.method = "GET"
        \/ req.method = "POST" /\ req.body.title = Some("T")
                               /\ req.body.length = Some(BODY_LIMIT)
        \/ /\ req.method = "PATCH"
           /\ req.path = <<SegNotes, <<"1">>>>
           /\ \/ req.body.title = Some("T") /\ req.body.content = Some("hi")
              \/ req.body.title = None /\ req.body.content = None
        \/ req.method = "DELETE" /\ req.path = <<SegNotes, <<"1">>>> }

\* the steps of the task that serves the request in slot r
TaskStep(r) ==
    \/ LockAcquire(r)
    \/ LockWait(r)
    \/ ListBody(r)
    \/ CreateFetchAdd(r)
    \/ CreatePush(r)
    \/ UpdateValidate(r)
    \/ UpdateFind(r)
    \/ UpdateContent(r)
    \/ RemoveBody(r)

LiveNext ==
    \/ \E r \in Reqs, req \in LiveRequests : Receive(r, req, MaxRequests)
    \/ \E r \in Reqs : LockAcquire(r)
    \/ \E r \in Reqs : LockWait(r)
    \/ \E r \in Reqs : ListBody(r)
    \/ \E r \in Reqs : CreateFetchAdd(r)
    \/ \E r \in Reqs : CreatePush(r)
    \/ \E r \in Reqs : UpdateValidate(r)
    \/ \E r \in Reqs : UpdateFind(r)
    \/ \E r \in Reqs : UpdateContent(r)
    \/ \E r \in Reqs : RemoveBody(r)

FairSpec == Init /\ [][LiveNext]_vars /\ \A r \in Reqs : WF_vars(TaskStep(r))

(***************************************************************************)
(* Properties.                                                             *)
(***************************************************************************)
Ids(s) == { s[i].id : i \in 1..Len(s) }
Range(s) == { s[i] : i \in 1..Len(s) }

\* a create request that has taken its id
HasId(r) == handler[r] = "create_note" /\ pc[r] # "fetch_add"

\* C1: the ids fetch_add hands out are pairwise distinct, so that no id is
\* assigned a second time (whether or not its note is still stored); the notes
\* in the store have pairwise distinct ids, and the id of a create that has not
\* pushed yet is the id of no stored note and of no other such create.
IdsNeverRepeat ==
    /\ \A i, j \in 1..Len(assigned) : i # j => assigned[i] # assigned[j]
    /\ \A i, j \in 1..Len(db) : i # j => db[i].id # db[j].id
    /\ \A r \in Reqs : HasId(r) =>
          /\ new_note[r].id \notin Ids(db)
          /\ \A q \in Reqs : (q # r /\ HasId(q)) => new_note[q].id # new_note[r].id
    /\ \A d \in deleted : Cardinality({ i \in 1..Len(assigned) : assigned[i] = d }) = 1

\* C1 witness: a note was created and deleted, and the create after that has
\* stored its note under the second id
IdsNeverRepeatWitness ==
    /\ Len(assigned) = 2
    /\ assigned[1] \in deleted
    /\ Len(db) = 1
    /\ db[1].id = assigned[2]

\* C2: the ids are strictly increasing in the order in which the creates take
\* them, and a create that came in after the 201 response of another one has
\* a greater id than that one.
IdsStrictlyIncreasing ==
    /\ \A i, j \in 1..Len(assigned) : i < j => assigned[i] < assigned[j]
    /\ \A r \in Reqs : HasId(r) => \A a \in seenAtStart[r] : a < new_note[r].id
    /\ sent.handler = "create_note" =>
          \A a \in sent.seen : a < sent.resp.notes[1].id

\* C2 witness: a 201 response to a create that came in after another 201
IdsStrictlyIncreasingWitness ==
    /\ sent.handler = "create_note"
    /\ sent.resp.status = StatusCREATED
    /\ sent.seen # {}
    /\ Len(assigned) = 2

\* the note a create of the JSON members title and content is to store under id
Submitted(id, title, content) ==
    [id |-> id, title |-> Unwrap(title),
     content |-> IF IsSome(content) THEN Unwrap(content) ELSE ""]

\* C3: a create answers 201 with the note it stored: its id, the title and the
\* content of the request body, the empty string for an omitted content; that
\* note is the last of the store, and a list that reads the store with no
\* change of it since that push answers 200 with that note as its last element.
CreateThenList ==
    /\ sent.handler = "create_note" =>
          LET n == Submitted(sent.note.id, sent.raw.body.title, sent.raw.body.content)
          IN  /\ sent.resp = [status |-> StatusCREATED, json |-> "object",
                              notes |-> << n >>]
              /\ n.id \in Range(assigned)
              /\ db # <<>>
              /\ db[Len(db)] = n
    /\ (sent.handler = "list_notes" /\ IsSome(sent.saw)) =>
          LET c == Unwrap(sent.saw)
          IN  /\ sent.resp.status = StatusOK
              /\ sent.resp.json = "array"
              /\ sent.resp.notes # <<>>
              /\ sent.resp.notes[Len(sent.resp.notes)] =
                     Submitted(c.id, c.title, c.content)

\* C3 witness: a list right after a create without content, the second note
CreateThenListWitness ==
    /\ sent.handler = "list_notes"
    /\ IsSome(sent.saw)
    /\ IsNone(Unwrap(sent.saw).content)
    /\ Len(sent.resp.notes) = 2
    /\ sent.resp.notes[2].content = ""

\* a step of request r in the handler h
StepOf(r, h) == handler[r] = h /\ pc[r] # "waiting" /\ pc'[r] # pc[r]

\* what a 204 update has made of the store it found when it locked it
UpdateFrame ==
    (sent.handler = "update_note" /\ sent.resp.status = StatusNO_CONTENT) =>
       /\ sent.resp = StatusReply(StatusNO_CONTENT)
       /\ Len(db) = Len(sent.before)
       /\ \E i \in 1..Len(db) :
            /\ sent.before[i].id = sent.args.id
            /\ \A j \in 1..Len(db) : j # i => db[j] = sent.before[j]
            /\ db[i].id = sent.before[i].id
            /\ db[i].title = IF IsSome(sent.raw.body.title)
                             THEN Unwrap(sent.raw.body.title)
                             ELSE sent.before[i].title
            /\ db[i].content = IF IsSome(sent.raw.body.content)
                               THEN Unwrap(sent.raw.body.content)
                               ELSE sent.before[i].content

\* C4: an update answered 204 has changed, in the note with its id, the fields
\* its body supplies and nothing else: the other field, the id and the place
\* of that note and every other note are as they were when it locked the
\* store, the 204 has no body, and no step of an update changes the id counter.
UpdateChangesOnlySupplied ==
    [][ /\ UpdateFrame'
        /\ \A r \in Reqs : StepOf(r, "update_note") => NEXT_NOTE_ID' = NEXT_NOTE_ID
      ]_vars

\* C4 witness: of two notes the first got a new title from a body without
\* content
UpdateChangesOnlySuppliedWitness ==
    /\ sent.handler = "update_note"
    /\ sent.resp.status = StatusNO_CONTENT
    /\ IsSome(sent.raw.body.title)
    /\ IsNone(sent.raw.body.content)
    /\ Len(db) = 2
    /\ sent.args.id = db[1].id
    /\ sent.before[1].title # db[1].title

\* a PATCH body that is a JSON object with neither title nor content
EmptyUpdate(req) ==
    req.body.syntax = "object" /\ IsNone(req.body.title) /\ IsNone(req.body.content)

\* the state an update with neither field is in while it runs and when it is
\* answered
EmptyUpdateState ==
    /\ (sent.handler = "update_note" /\ EmptyUpdate(sent.raw)) =>
          /\ sent.resp = StatusReply(StatusUNPROCESSABLE_ENTITY)
          /\ sent.acquired = 0
    /\ \A r \in Reqs : (handler[r] = "update_note" /\ EmptyUpdate(raw[r])) =>
          /\ pc[r] = "validate"
          /\ acquired[r] = 0
          /\ lock # r
          /\ r \notin Range(waiters)

\* C5: an update whose body has neither title nor content is answered 422,
\* whether or not a note has its id; it never waits for the store lock nor
\* holds it, and its step changes neither the notes nor the id counter.
UpdateEmptyIs422 ==
    [][ /\ EmptyUpdateState'
        /\ \A r \in Reqs : (StepOf(r, "update_note") /\ EmptyUpdate(raw[r])) =>
              UNCHANGED << db, NEXT_NOTE_ID, lock, waiters >>
      ]_vars

\* C5 witness: 422 for the id of a stored note
UpdateEmptyIs422Witness ==
    /\ sent.handler = "update_note"
    /\ EmptyUpdate(sent.raw)
    /\ sent.resp.status = StatusUNPROCESSABLE_ENTITY
    /\ sent.args.id \in Ids(db)

\* s without its i-th element
Without(s, i) == SubSeq(s, 1, i - 1) \o SubSeq(s, i + 1, Len(s))

Lookup(s) ==
    \/ s.handler = "remove_note"
    \/ s.handler = "update_note" /\ ~EmptyUpdate(s.raw)

\* C7: an update with a field, or a delete, that finds no note with its id in
\* the store it locked answers 404 and leaves the notes as they were; no step
\* of an update or a delete changes the id counter.
MissingIdIs404 ==
    [][ /\ (Lookup(sent') /\ sent'.args.id \notin Ids(sent'.before)) =>
              /\ sent'.resp = StatusReply(StatusNOT_FOUND)
              /\ db' = sent'.before
        /\ \A r \in Reqs : (StepOf(r, "update_note") \/ StepOf(r, "remove_note")) =>
              NEXT_NOTE_ID' = NEXT_NOTE_ID
      ]_vars

\* C7 witness: 404 for an update of an id no create was given, with notes stored
MissingIdIs404Witness ==
    /\ sent.handler = "update_note"
    /\ ~EmptyUpdate(sent.raw)
    /\ sent.args.id \notin Range(assigned)
    /\ sent.resp.status = StatusNOT_FOUND
    /\ db # <<>>

\* the responses of the concrete scenario, in order
ScenarioResp ==
    << [status |-> 201, json |-> "object",
        notes |-> << [id |-> 1, title |-> "Lorem Ipsum", content |-> ""] >>],
       [status |-> 200, json |-> "array",
        notes |-> << [id |-> 1, title |-> "Lorem Ipsum", content |-> ""] >>],
       [status |-> 204, json |-> "none", notes |-> <<>>],
       [status |-> 200, json |-> "array",
        notes |-> << [id |-> 1, title |-> "Lorem Ipsum", content |-> "hi"] >>],
       [status |-> 204, json |-> "none", notes |-> <<>>],
       [status |-> 200, json |-> "array", notes |-> <<>>],
       [status |-> 404, json |-> "none", notes |-> <<>>] >>

\* C8: a fresh process sent the requests of the scenario one after the other
\* answers each of them as the scenario says; the first id is 1.
ScenarioResponses ==
    (scn >= 1 /\ sent.handler # "none") =>
       /\ sent.raw = ScenarioReq[scn]
       /\ sent.resp = ScenarioResp[scn]

\* C8 witness: the last response of the scenario, 404 for the second delete
ScenarioResponsesWitness ==
    /\ scn = ScenarioLen
    /\ sent.handler = "remove_note"
    /\ sent.resp.status = 404

\* a body longer than the cap of 16 KiB
Oversized(body) == IsSome(body.length) /\ Unwrap(body.length) > 16 * 1024

\* a POST /notes whose body is too long, is no JSON object or has no title
BadCreate(req) ==
    /\ req.method = "POST"
    /\ req.path = << SegNotes >>
    /\ Oversized(req.body) \/ req.body.syntax # "object" \/ IsNone(req.body.title)

\* a PATCH /notes/{id} whose body is too long or is no JSON object
BadUpdate(req) ==
    /\ req.method = "PATCH"
    /\ Len(req.path) = 2
    /\ req.path[1] = SegNotes
    /\ Oversized(req.body) \/ req.body.syntax # "object"

\* C9, as claimed: a POST /notes with an oversized or unparsable body is
\* answered 400 or 422.
BadCreateIs400Or422 ==
    BadCreate(sent.raw) => sent.resp.status \in {400, 422}

\* no request with a bad body is being served, and the one just answered
\* was answered by not_found_handler, without the lock
BadBodyState ==
    /\ \A r \in Reqs : ~BadCreate(raw[r]) /\ ~BadUpdate(raw[r])
    /\ (BadCreate(sent.raw) \/ BadUpdate(sent.raw)) =>
          /\ sent.handler = "not_found"
          /\ sent.acquired = 0
    /\ lock # 0 => ~BadCreate(raw[lock]) /\ ~BadUpdate(raw[lock])

\* C10: a POST /notes or PATCH /notes/{id} with an oversized or malformed body
\* runs no handler: it is served by no request slot, never holds the store
\* lock, and the step that answers it changes neither the notes, nor the id
\* counter, nor the lock.
BadBodyNeverReachesStore ==
    [][ /\ BadBodyState'
        /\ (BadCreate(sent'.raw) \/ BadUpdate(sent'.raw)) =>
              UNCHANGED << db, NEXT_NOTE_ID, lock, waiters, pc >>
      ]_vars

\* C10 witness: a PATCH of a stored note's id with a body that is not JSON
BadBodyNeverReachesStoreWitness ==
    /\ BadUpdate(sent.raw)
    /\ sent.raw.body.syntax = "garbage"
    /\ sent.handler = "not_found"
    /\ Len(sent.raw.path[2]) = 1
    /\ \E n \in Ids(db) : n = DigitValue(sent.raw.path[2][1])

\* a path segment that writes a non-negative integer: decimal digits, which
\* a '+' may precede
WritesNatural(seg) ==
    /\ seg # <<>>
    /\ seg # << "+" >>
    /\ \A i \in 1..Len(seg) : seg[i] \in Digits \/ (i = 1 /\ seg[i] = "+")

\* a request whose method and path are those of none of the four routes
Unrouted(req) ==
    /\ ~(req.path = << SegNotes >> /\ req.method \in {"GET", "POST"})
    /\ ~(/\ Len(req.path) = 2
         /\ req.path[1] = SegNotes
         /\ req.method \in {"PATCH", "DELETE"}
         /\ WritesNatural(req.path[2]))

\* C11: a request whose method and path match none of the four routes, a
\* PATCH or DELETE of /notes/{id} with an id segment that is no non-negative
\* integer among them, is answered 404 without body by not_found_handler; it
\* is served by no handler, and the step that answers it changes neither the
\* notes, nor the id counter, nor the lock.
UnroutedIs404 ==
    [][ /\ \A r \in Reqs : InFlight(r)' => ~Unrouted(raw'[r])
        /\ (sent'.handler # "none" /\ Unrouted(sent'.raw)) =>
              /\ sent'.handler = "not_found"
              /\ sent'.resp = [status |-> 404, json |-> "none", notes |-> <<>>]
              /\ UNCHANGED << db, NEXT_NOTE_ID, lock, waiters, pc >>
      ]_vars

\* C11 witness: DELETE /notes/-1 answered 404 while note 1 is stored
UnroutedIs404Witness ==
    /\ sent.raw.method = "DELETE"
    /\ sent.raw.path = << SegNotes, << "-", "1" >> >>
    /\ sent.resp.status = StatusNOT_FOUND
    /\ 1 \in Ids(db)

\* C12, as claimed: a create request that has taken its id holds the store
\* lock.
IdTakenUnderLock ==
    \A r \in Reqs : HasId(r) => lock = r

\* C13, as claimed: the notes of the store are in strictly increasing order of
\* id.
StoreInIdOrder ==
    \A i, j \in 1..Len(db) : i < j => db[i].id < db[j].id

\* a request that is past its db.lock().await and has not returned
Critical(r) == pc[r] \in {"locked", "write_content"}

\* a response of a handler that reads or writes the notes
TouchesNotes(s) ==
    \/ s.handler \in {"list_notes", "create_note", "remove_note"}
    \/ s.handler = "update_note" /\ ~EmptyUpdate(s.raw)

LockState ==
    /\ lock \in Reqs \cup {0}
    /\ \A r \in Reqs : Critical(r) <=> lock = r
    /\ \A r, q \in Reqs : (Critical(r) /\ Critical(q)) => r = q
    /\ \A r \in Reqs : acquired[r] = IF Critical(r) THEN 1 ELSE 0
    /\ TouchesNotes(sent) => sent.acquired = 1
    /\ \A i \in 1..Len(waiters) : waiters[i] # lock /\ pc[waiters[i]] = "waiting"
    /\ lock = 0 => waiters = <<>>

\* C14: at most one request, a list like any other, is past its lock().await
\* and not yet returned, and it is the holder of the lock; a request is
\* granted the lock once, the handlers that return after it have been granted
\* it exactly once, and a request that has returned, with a 404 or not, does
\* not hold it; the notes change, and are read for a response, only in a step
\* of the holder.
LockExclusive ==
    [][ /\ LockState'
        /\ (db' # db \/ TouchesNotes(sent')) =>
              /\ lock # 0
              /\ Critical(lock)
              /\ pc'[lock] # pc[lock]
              /\ TouchesNotes(sent') => sent'.raw = raw[lock]
      ]_vars

\* C14 witness: a list holds the lock and another list waits for it
LockExclusiveWitness ==
    /\ lock # 0
    /\ handler[lock] = "list_notes"
    /\ waiters # <<>>
    /\ handler[Head(waiters)] = "list_notes"

\* an operation of q on the notes is begun and not finished: an update has
\* written (or skipped) the title and not yet the content
MidOperation(q) == pc[q] = "write_content"

\* the note an update with both fields is half-way through: its new title
\* beside a content that is not yet the new one
Torn(q) ==
    /\ MidOperation(q)
    /\ IsSome(args[q].title)
    /\ IsSome(args[q].content)
    /\ db[note_idx[q]].title = Unwrap(args[q].title)
    /\ db[note_idx[q]].content # Unwrap(args[q].content)

\* C15: a list reads the notes in a state in which no request is half-way
\* through an operation, so never a note with the new title of an update and
\* not yet its new content, and its response is the whole note sequence of
\* that one state; a request half-way through an operation holds the lock.
ListSeesWholeOperations ==
    [][ /\ \A q \in Reqs : MidOperation(q)' => lock' = q
        /\ sent'.handler = "list_notes" =>
              /\ \A q \in Reqs : ~MidOperation(q) /\ ~Torn(q)
              /\ Len(sent'.resp.notes) = Len(db)
              /\ \A i \in 1..Len(db) :
                    /\ sent'.resp.notes[i].id = db[i].id
                    /\ sent'.resp.notes[i].title = db[i].title
                    /\ sent'.resp.notes[i].content = db[i].content
      ]_vars

\* C15 witness: an update with both fields has written the title and not the
\* content while a list waits for the lock
ListSeesWholeOperationsWitness ==
    \E q \in Reqs :
        /\ Torn(q)
        /\ \E l \in Reqs : handler[l] = "list_notes" /\ pc[l] = "waiting"

\* C16: under the fair runtime every request that has started returns, and
\* the step in which it returns sends its response; so no request waits for
\* the lock for ever and the requests never block one another for good.
EveryRequestCompletes ==
    /\ \A r \in Reqs : InFlight(r) ~> ~InFlight(r)
    /\ [][ \A r \in Reqs :
             (InFlight(r) /\ ~InFlight(r)') =>
                 /\ sent'.raw = raw[r]
                 /\ sent'.resp.status \in { StatusOK, StatusCREATED, StatusNO_CONTENT,
                                            StatusNOT_FOUND,
                                            StatusUNPROCESSABLE_ENTITY } ]_vars

\* C16 witness: a create request queues for the lock behind its holder
EveryRequestCompletesWitness ==
    \E r \in Reqs :
        /\ handler[r] = "create_note"
        /\ pc[r] = "waiting"
        /\ lock \notin {0, r}

DeletedStaysAbsent ==
    \A d \in deleted :
        /\ \A i \in 1..Len(db) : db[i].id # d
        /\ \A r \in Reqs : HasId(r) => new_note[r].id # d

\* C18 witness: after a 204 delete a create has pushed its note, which is now
\* the only one
DeletedStaysAbsentWitness ==
    /\ deleted # {}
    /\ sent.handler = "create_note"
    /\ sent.deleted # {}
    /\ Len(db) = 1
    /\ db[1].id \notin deleted

\* the store keeps its notes in the order of their pushes: two notes of the
\* store after a step were in that order before it, or the second is the note
\* the step has appended
AppendOrderKept ==
    \A i, j \in 1..Len(db') : i < j =>
        \/ \E k, l \in 1..Len(db) :
              k < l /\ db[k].id = db'[i].id /\ db[l].id = db'[j].id
        \/ j = Len(db') /\ db'[j].id \notin Ids(db)

\* C19: every response of a list is 200 with a JSON array that has, in the
\* order of the store (the order of the pushes), one element for each note of
\* the store with its id, title and content; no step of a list changes the
\* notes or the id counter.
ListIsPure ==
    [][ /\ AppendOrderKept
        /\ sent'.handler = "list_notes" =>
              /\ sent'.resp.status = StatusOK
              /\ sent'.resp.json = "array"
              /\ DOMAIN sent'.resp.notes = 1..Len(db')
              /\ \A i \in 1..Len(db') :
                    sent'.resp.notes[i] =
                        [id |-> db'[i].id, title |-> db'[i].title,
                         content |-> db'[i].content]
        /\ \A r \in Reqs : StepOf(r, "list_notes") =>
              /\ db' = db
              /\ NEXT_NOTE_ID' = NEXT_NOTE_ID
      ]_vars

\* C19 witness: a list of two notes of which the first pushed has the greater
\* id, and one has a content
ListIsPureWitness ==
    /\ sent.handler = "list_notes"
    /\ Len(sent.resp.notes) = 2
    /\ sent.resp.notes[1].id > sent.resp.notes[2].id
    /\ \E i \in 1..2 : sent.resp.notes[i].content # ""

\* the counter is above every id in use
CounterAbove ==
    /\ NEXT_NOTE_ID >= FIRST_NOTE_ID
    /\ FIRST_NOTE_ID >= 1
    /\ \A i \in 1..Len(db) : db[i].id < NEXT_NOTE_ID
    /\ \A r \in Reqs : (HasId(r) /\ InFlight(r)) => new_note[r].id < NEXT_NOTE_ID

\* C20: the id counter is at least 1 and greater than the id of every stored
\* note and of every note a create has numbered and not yet pushed; no step
\* lowers it; a step that changes it is the fetch_add of one create request
\* and raises it by 1, and every create request does that step once, its
\* other steps leaving the counter alone.
CounterMonotone ==
    [][ /\ CounterAbove'
        /\ NEXT_NOTE_ID' >= NEXT_NOTE_ID
        /\ NEXT_NOTE_ID' # NEXT_NOTE_ID =>
              /\ NEXT_NOTE_ID' = NEXT_NOTE_ID + 1
              /\ \E r \in Reqs :
                    /\ handler[r] = "create_note"
                    /\ pc[r] = "fetch_add"
                    /\ pc'[r] = "lock"
                    /\ \A q \in Reqs : q # r => pc'[q] = pc[q]
        /\ \A r \in Reqs : StepOf(r, "create_note") =>
              IF pc[r] = "fetch_add"
              THEN NEXT_NOTE_ID' = NEXT_NOTE_ID + 1
              ELSE NEXT_NOTE_ID' = NEXT_NOTE_ID
        /\ \A r \in Reqs : (handler'[r] = "create_note" /\ handler[r] # "create_note") =>
              pc'[r] = "fetch_add"
      ]_vars

\* C20 witness: two creates have each taken an id and neither has pushed
CounterMonotoneWitness ==
    /\ db = <<>>
    /\ NEXT_NOTE_ID = FIRST_NOTE_ID + 2
    /\ \A r \in 1..2 : HasId(r) /\ InFlight(r)
    /\ new_note[1].id # new_note[2].id

====
